---- MODULE Spec2Model ----
(***************************************************************************)
(* turso-introspect.  lib/formatter.ts is not part of the source tree at   *)
(* hand: the Topological Orderer and the SQL Synthesizer are modelled from *)
(* spec.md sections 4.1 to 4.3.  Everything else is modelled from the      *)
(* code: src/lib/retry.ts, src/lib/schema.ts, src/lib/errors.ts,           *)
(* src/lib/logger.ts, src/lib/db.ts, src/commands/diff.ts,                 *)
(* src/commands/introspect.ts and src/index.ts.                            *)
(*                                                                         *)
(* The specifications share the variables; each leaves the variables of    *)
(* the other components at their idle values.                              *)
(*   SpecOrder      : one Snapshot, ordered twice by the Orderer's loop    *)
(*   SpecSynth      : one Snapshot rendered by the Synthesizer             *)
(*   SpecRetry      : one withRetry call around a fallible operation       *)
(*   SpecSchema     : one call of introspectSchema                         *)
(*   SpecDiff       : one run of the diff command                          *)
(*   SpecIntrospect : one run of the introspect command                    *)
(*   SpecCli        : one run of either command                            *)
(*   SpecLogger     : the methods of one Logger called in any order        *)
(*   SpecToken      : one call of getAuthToken                             *)
(*   SpecProxy      : calls through the client createDbClient returns      *)
(***************************************************************************)
EXTENDS Integers, Sequences, FiniteSets

VARIABLES
    \* ---- Topological Orderer ----
    numTables,   \* number of tables of the Snapshot; table i is the i-th declared
    fks,         \* set of <<table, referencedName>>: one pair per foreign-key group
    edges,       \* the edges of the dependency graph not yet removed
    order,       \* the sequence of names placed so far
    opc,         \* "idle" | "run" | "done"
    run,         \* 1 for the first ordering of the Snapshot, 2 for the re-run
    firstOrder,  \* the order the first run produced
    \* ---- withRetry ----
    optRetries,    \* options.retries as passed
    optBaseDelay,  \* options.baseDelayMs as passed
    attempt,       \* the loop variable of withRetry
    calls,         \* invocations of fn so far
    failures,      \* invocations of fn that rejected so far
    inFlight,      \* invocations of fn started and not yet settled
    rpc,           \* "idle" | "loop" | "inflight" | "sleeping" | "done"
    lastError,     \* 0 (undefined) or the number of the invocation that raised it
    slept,         \* sequence of <<attempt, ms>>: the calls of sleep
    result,        \* "pending" | "returned" | "threw"
    value,         \* the value returned: the number of the invocation that produced it
    msgAttempts,   \* the attempt count in RetryError's message
    cause,         \* RetryError.cause
    \* ---- diff ----
    quiet,        \* options.quiet
    diffFormat,   \* "diff" | "migration"
    emptyDiffRun, \* TRUE iff this build's Diff.diffLines("", "") yields one unchanged part
    sql1, sql2,   \* the two texts, sequences of lines
    sides,        \* the settled sides of Promise.all: subset of {1, 2}
    srcKind,      \* what each source names: "file" | "directory" | "absent"
    sidePc,       \* where each getSchemaSql call stands: "idle" | "stat" | "reading" |
                  \* "connecting" | "introspecting" | "resolved" | "rejected"
    sideClient,   \* the database client of each getSchemaSql call: "none" | "open" | "closed"
    sideErr,      \* the error each getSchemaSql call rejected with, NoError if none
    derr,         \* the error diff() itself rejected with, NoError if none
    exitCode,     \* the code given to process.exit, 0 while there was no exit
    dpc,          \* "idle" | "init" | "fetch" | "done" | "failed" | "exited"
    out,          \* what was written to the console, in order
    \* ---- SQL Synthesizer ----
    synTables,    \* the Snapshot's tables, in the order the Orderer produced
    synViews,     \* the Snapshot's views
    synTriggers,  \* the Snapshot's triggers
    sqlScript,       \* the statements emitted so far, in order
    sti,          \* the number of tables rendered so far
    spc,          \* "idle" | "init" | "tables" | "fks" | "tail" | "done"
    \* ---- introspectSchema ----
    catalog,          \* the rows of the sqlite_master query, ordered by name
    optIncludeSystem, \* options.includeSystem
    optTables,        \* options.tables: [defined, names]
    optExcludeTables, \* options.excludeTables: [defined, names]
    tablesToProcess,  \* names of the tables kept by the scan
    viewsToProcess,   \* names of the views kept by the scan
    triggersToProcess,\* names of the triggers kept by the scan
    indexSqlMap,      \* names of the indexes with a catalog row
    ti,               \* position in tablesToProcess of the table in work, 0 before
    slots,            \* the result array of Promise.all over the three PRAGMAs
    idxSlots,         \* the result array of Promise.all over index_info
    snapTables,       \* Schema.tables built so far
    snapshot,         \* the Schema returned, NoSchema before
    hpc,              \* "idle" | "init" | "tables" | "pragmas" | "indexes" | "done" | "failed"
    \* ---- the introspect command ----
    database,       \* the database argument: "undefined", "" or a name
    optFormat,      \* options.format
    rawRetries,     \* the text given to --retries: [passed, text]
    rawRetryDelay,  \* the text given to --retry-delay: [passed, text]
    optCheck,       \* options.check
    optStdout,      \* options.stdout
    optQuiet,       \* options.quiet
    optVerbose,     \* options.verbose
    client,         \* "none" | "open" | "closed"
    fileWritten,    \* TRUE once fs.writeFile has resolved
    ioLog,          \* the calls made to the outside, in order
    found,          \* what introspectSchema returned: [returned, tables, views, triggers]
    console,        \* what was written to the console, in order
    thrown,         \* the error introspect() rejected with, NoError if none
    code,           \* the code given to process.exit, 0 while there was no exit
    ipc,            \* "idle" | "init" | "connecting" | "checking" | "introspecting" |
                    \* "writing" | "done" | "failed" | "exited"
    \* ---- Logger ----
    logQuiet,       \* options.quiet of the Logger
    logVerbose,     \* options.verbose of the Logger
    logCalls,       \* the methods called on the Logger, in order
    logOut,         \* what reached the console: [call, method, stream], in order
    \* ---- getAuthToken ----
    tokenFlag,      \* the tokenFlag argument
    envToken,       \* process.env.TURSO_AUTH_TOKEN
    settingsToken,  \* the token of the Turso CLI settings file
    tokOrg,         \* the org argument: "undefined", "" or a name
    consulted,      \* the sources looked at, in order
    tokenResult,    \* [source, minted, rejected]: what getAuthToken settled with
    tpc,            \* "idle" | "init" | "settings" | "minting" | "done"
    \* ---- the client of createDbClient ----
    cfgRetries,     \* config.retries: [defined, value]
    cfgRetryDelay,  \* config.retryDelayMs: [defined, value]
    current,        \* the call through the proxy in work: [member, args, retried]
    settled,        \* the calls through the proxy that settled, in order
    ppc             \* "idle" | "ready" | "running"

orderVars == <<numTables, fks, edges, order, opc, run, firstOrder>>
retryVars == <<optRetries, optBaseDelay, attempt, calls, failures, inFlight, rpc,
               lastError, slept, result, value, msgAttempts, cause>>
diffVars == <<quiet, diffFormat, emptyDiffRun, sql1, sql2, sides, srcKind, sidePc, sideClient,
              sideErr, derr,
              exitCode, dpc, out>>
synthVars == <<synTables, synViews, synTriggers, sqlScript, sti, spc>>
schemaVars == <<catalog, optIncludeSystem, optTables, optExcludeTables, tablesToProcess,
                viewsToProcess, triggersToProcess, indexSqlMap, ti, slots, idxSlots,
                snapTables, snapshot, hpc>>
cmdVars == <<database, optFormat, rawRetries, rawRetryDelay, optCheck, optStdout, optQuiet,
             optVerbose, client, fileWritten, ioLog, found, console, thrown, code, ipc>>
loggerVars == <<logQuiet, logVerbose, logCalls, logOut>>
tokenVars == <<tokenFlag, envToken, settingsToken, tokOrg, consulted, tokenResult, tpc>>
proxyVars == <<cfgRetries, cfgRetryDelay, current, settled, ppc>>
libVars == <<loggerVars, tokenVars, proxyVars>>
vars == <<orderVars, retryVars, diffVars, synthVars, schemaVars, cmdVars, libVars>>
notSynth == <<orderVars, retryVars, diffVars, schemaVars, cmdVars, libVars>>
notSchema == <<orderVars, retryVars, diffVars, synthVars, cmdVars, libVars>>
notCmd == <<orderVars, retryVars, diffVars, synthVars, schemaVars, libVars>>
notLogger == <<orderVars, retryVars, diffVars, synthVars, schemaVars, cmdVars, tokenVars,
               proxyVars>>
notToken == <<orderVars, retryVars, diffVars, synthVars, schemaVars, cmdVars, loggerVars,
              proxyVars>>
notProxy == <<orderVars, diffVars, synthVars, schemaVars, cmdVars, loggerVars, tokenVars>>

\* ---- bounds ----
MaxTables == 3
MaxFks == 4
MaxRetries == 3
MaxBaseDelay == 2
MaxLines == 2
MaxSynTables == 2
MaxCatalog == 3
MaxObjects == 1

Range(s) == {s[i] : i \in DOMAIN s}

\* An error value: a CliError with its exit code, or any other thrown value.
NoError == [kind |-> "none", code |-> 0]

IdleOrder ==
    /\ numTables = 0
    /\ fks = {}
    /\ edges = {}
    /\ order = <<>>
    /\ opc = "idle"
    /\ run = 1
    /\ firstOrder = <<>>

IdleRetry ==
    /\ optRetries = 0
    /\ optBaseDelay = 0
    /\ attempt = 0
    /\ calls = 0
    /\ failures = 0
    /\ inFlight = 0
    /\ rpc = "idle"
    /\ lastError = 0
    /\ slept = <<>>
    /\ result = "pending"
    /\ value = 0
    /\ msgAttempts = 0
    /\ cause = 0

IdleSynth ==
    /\ synTables = <<>>
    /\ synViews = <<>>
    /\ synTriggers = <<>>
    /\ sqlScript = <<>>
    /\ sti = 0
    /\ spc = "idle"

NoSchema == [tables |-> <<>>, views |-> <<>>, triggers |-> <<>>, returned |-> FALSE]

Undefined == [defined |-> FALSE, names |-> <<>>]

IdleSchema ==
    /\ catalog = <<>>
    /\ optIncludeSystem = FALSE
    /\ optTables = Undefined
    /\ optExcludeTables = Undefined
    /\ tablesToProcess = <<>>
    /\ viewsToProcess = <<>>
    /\ triggersToProcess = <<>>
    /\ indexSqlMap = {}
    /\ ti = 0
    /\ slots = <<>>
    /\ idxSlots = <<>>
    /\ snapTables = <<>>
    /\ snapshot = NoSchema
    /\ hpc = "idle"

NothingFound == [returned |-> FALSE, tables |-> 0, views |-> 0, triggers |-> 0]

NotPassed == [passed |-> FALSE, text |-> <<>>]

IdleCmd ==
    /\ database = "undefined"
    /\ optFormat = "undefined"
    /\ rawRetries = NotPassed
    /\ rawRetryDelay = NotPassed
    /\ optCheck = FALSE
    /\ optStdout = FALSE
    /\ optQuiet = FALSE
    /\ optVerbose = FALSE
    /\ client = "none"
    /\ fileWritten = FALSE
    /\ ioLog = <<>>
    /\ found = NothingFound
    /\ console = <<>>
    /\ thrown = NoError
    /\ code = 0
    /\ ipc = "idle"

NoToken == [text |-> "undefined", platform |-> FALSE]

NoResult == [source |-> "none", minted |-> FALSE, rejected |-> FALSE]

NotConfigured == [defined |-> FALSE, value |-> 0]

NoCall == [member |-> "none", args |-> "none", retried |-> FALSE]

IdleLogger ==
    /\ logQuiet = FALSE
    /\ logVerbose = FALSE
    /\ logCalls = <<>>
    /\ logOut = <<>>

IdleToken ==
    /\ tokenFlag = NoToken
    /\ envToken = NoToken
    /\ settingsToken = NoToken
    /\ tokOrg = "undefined"
    /\ consulted = <<>>
    /\ tokenResult = NoResult
    /\ tpc = "idle"

IdleProxy ==
    /\ cfgRetries = NotConfigured
    /\ cfgRetryDelay = NotConfigured
    /\ current = NoCall
    /\ settled = <<>>
    /\ ppc = "idle"

IdleLib == IdleLogger /\ IdleToken /\ IdleProxy

IdleDiff ==
    /\ quiet = FALSE
    /\ diffFormat = "diff"
    /\ emptyDiffRun = FALSE
    /\ sql1 = <<>>
    /\ sql2 = <<>>
    /\ sides = {}
    /\ srcKind = [i \in {1, 2} |-> "absent"]
    /\ sidePc = [i \in {1, 2} |-> "idle"]
    /\ sideClient = [i \in {1, 2} |-> "none"]
    /\ sideErr = [i \in {1, 2} |-> NoError]
    /\ derr = NoError
    /\ exitCode = 0
    /\ dpc = "idle"
    /\ out = <<>>

(***************************************************************************)
(* Dependency Grapher and Topological Orderer (spec.md 4.1, 4.2).          *)
(* A table's name is its declaration index 1..numTables, so names are      *)
(* unique; the name numTables + 1 stands for a referenced table that is    *)
(* absent from the Snapshot.                                               *)
(***************************************************************************)
TableNames(n) == 1..n

RefNames(n) == 1..(n + 1)

\* The Snapshots of the model: at most MaxFks foreign-key groups in all.
Snapshots(n) ==
    {f \in SUBSET (TableNames(n) \X RefNames(n)) : Cardinality(f) <= MaxFks}

\* 4.1: edges go from a table to each table it references; a self-reference
\* is a self-loop; an edge to a table absent from the Snapshot is dropped.
DependencyEdges(n, fk) == {e \in fk : e[2] \in TableNames(n)}

GraphNodesWithAbsent(n, fk) == TableNames(n) \cup {e[2] : e \in fk}

\* 4.1: the nodes are the Snapshot's table names.
GraphNodes(n, fk) == TableNames(n)

InDegree(t, E) == Cardinality({e \in E : e[2] = t})

ZeroInDegree(U, E) == {t \in U : InDegree(t, E) = 0}

HighestIndex(S) == CHOOSE t \in S : \A u \in S : u <= t

\* 4.2: ties are broken by original Snapshot declaration order.
LowestIndex(S) == CHOOSE t \in S : \A u \in S : t <= u

CyclePolicyStalls(U) == {}

\* 4.2: the cycle policy picks the unplaced node with the lowest declaration index.
CyclePolicy(U) == {LowestIndex(U)}

RemoveOutgoing(t, E) == {e \in E : e[1] # t}

Unplaced == GraphNodes(numTables, fks) \ Range(order)

Place(t) ==
    /\ order' = Append(order, t)
    /\ edges' = RemoveOutgoing(t, edges)
    /\ UNCHANGED <<numTables, fks, opc, run, firstOrder>>

\* Kahn's step: remove a node of in-degree zero.
PlaceAvailable ==
    /\ opc = "run"
    /\ ZeroInDegree(Unplaced, edges) # {}
    /\ Place(LowestIndex(ZeroInDegree(Unplaced, edges)))
    /\ UNCHANGED <<retryVars, diffVars, synthVars, schemaVars, cmdVars, libVars>>

\* The cycle policy: no zero-in-degree node remains but unplaced nodes exist.
ForcePlace ==
    /\ opc = "run"
    /\ Unplaced # {}
    /\ ZeroInDegree(Unplaced, edges) = {}
    /\ \E t \in CyclePolicy(Unplaced) : Place(t)
    /\ UNCHANGED <<retryVars, diffVars, synthVars, schemaVars, cmdVars, libVars>>

\* Every node is placed: the order is returned.
FinishOrder ==
    /\ opc = "run"
    /\ Unplaced = {}
    /\ opc' = "done"
    /\ UNCHANGED <<numTables, fks, edges, order, run, firstOrder>>
    /\ UNCHANGED <<retryVars, diffVars, synthVars, schemaVars, cmdVars, libVars>>

\* The same Snapshot is ordered a second time (rendering is repeated per call).
Rerun ==
    /\ opc = "done"
    /\ run = 1
    /\ run' = 2
    /\ firstOrder' = order
    /\ order' = <<>>
    /\ edges' = DependencyEdges(numTables, fks)
    /\ opc' = "run"
    /\ UNCHANGED <<numTables, fks>>
    /\ UNCHANGED <<retryVars, diffVars, synthVars, schemaVars, cmdVars, libVars>>

InitOrder ==
    /\ numTables \in 0..MaxTables
    /\ fks \in Snapshots(numTables)
    /\ edges = DependencyEdges(numTables, fks)
    /\ order = <<>>
    /\ opc = "run"
    /\ run = 1
    /\ firstOrder = <<>>
    /\ IdleRetry
    /\ IdleDiff
    /\ IdleSynth
    /\ IdleSchema
    /\ IdleCmd
    /\ IdleLib

NextOrder == PlaceAvailable \/ ForcePlace \/ FinishOrder \/ Rerun

SpecOrder == InitOrder /\ [][NextOrder]_vars

FairSpecOrder == SpecOrder /\ WF_vars(NextOrder)

(***************************************************************************)
(* Properties of the Topological Orderer.                                  *)
(***************************************************************************)
TableEdges == DependencyEdges(numTables, fks)

Successors(S) == {e[2] : e \in {d \in TableEdges : d[1] \in S}}

RECURSIVE Closure(_)
Closure(S) == IF Successors(S) \subseteq S THEN S ELSE Closure(S \cup Successors(S))

\* y is reachable from x along one or more edges.
Reaches(x, y) == y \in Closure(Successors({x}))

Acyclic == \A t \in TableNames(numTables) : ~Reaches(t, t)

Pos(t) == CHOOSE i \in DOMAIN order : order[i] = t

Occurrences(t) == Cardinality({i \in DOMAIN order : order[i] = t})

\* C1: the produced sequence contains every table name of the Snapshot
\* exactly once and no name that is not a table of the Snapshot, whatever
\* the foreign keys (cycles, self-references, references to absent tables);
\* while the Orderer runs, no name is placed twice and no foreign name is placed.
C1_OrderIsPermutation ==
    /\ \A i \in DOMAIN order : order[i] \in TableNames(numTables)
    /\ \A t \in TableNames(numTables) : Occurrences(t) <= 1
    /\ opc = "done" =>
          /\ Len(order) = numTables
          /\ \A t \in TableNames(numTables) : Occurrences(t) = 1

C1_Witness ==
    /\ opc = "done"
    /\ numTables = MaxTables
    /\ \E t \in TableNames(numTables) : <<t, t>> \in fks
    /\ \E t \in TableNames(numTables) : <<t, numTables + 1>> \in fks
    /\ \E t, u \in TableNames(numTables) :
          t # u /\ <<t, u>> \in fks /\ <<u, t>> \in fks

\* C2: in an acyclic dependency graph, a table with a foreign key to another
\* table of the Snapshot is placed strictly after the table it references.
C2_ReferencedTableFirst ==
    (opc = "done" /\ Acyclic) =>
        \A e \in TableEdges : e[1] # e[2] => Pos(e[1]) > Pos(e[2])

\* C3: ordering never stalls and every step places exactly one unplaced
\* table, so it ends, after numTables steps, with all tables placed; this
\* includes Snapshots with a foreign-key cycle or a self-reference.
C3_StepPlacesOne ==
    (order' # order /\ run' = run) =>
        /\ Len(order') = Len(order) + 1
        /\ SubSeq(order', 1, Len(order)) = order
        /\ order'[Len(order')] \in TableNames(numTables) \ Range(order)

C3_NoStall == opc = "run" => ENABLED (PlaceAvailable \/ ForcePlace \/ FinishOrder)

C3_OrderingTerminates ==
    /\ [][C3_StepPlacesOne]_vars
    /\ [](C3_NoStall)
    /\ [](opc = "done" => Len(order) = numTables)
    /\ <>(opc = "done" /\ run = 2)

C3_Witness ==
    /\ opc = "done"
    /\ Len(order) = numTables
    /\ \E t \in TableNames(numTables) : <<t, t>> \in fks
    /\ \E t, u \in TableNames(numTables) :
          t # u /\ <<t, u>> \in fks /\ <<u, t>> \in fks

\* C4: in a Snapshot that contains a cycle, every foreign-key edge X -> Y
\* whose ends are not on a common cycle is respected: X is placed after Y.
C4_NonCyclicEdgesRespected ==
    (opc = "done" /\ ~Acyclic) =>
        \A e \in TableEdges : ~Reaches(e[2], e[1]) => Pos(e[1]) > Pos(e[2])

\* C5: the Orderer is deterministic and breaks ties by declaration order:
\* the table placed next is the lowest-indexed of the tables available (no
\* unplaced table references them); a Snapshot without foreign keys comes
\* out in declaration order; a second run gives the identical sequence.
Available ==
    {t \in TableNames(numTables) \ Range(order) :
        \A e \in fks : e[2] = t => e[1] \in Range(order)}

C5_TieBreakStep ==
    (opc = "run" /\ Len(order') = Len(order) + 1 /\ Available # {}) =>
        /\ order'[Len(order')] \in Available
        /\ \A u \in Available : order'[Len(order')] <= u

C5_DeterministicOrder ==
    /\ [][C5_TieBreakStep]_vars
    /\ [](opc = "done" /\ fks = {} => order = [i \in 1..numTables |-> i])
    /\ [](opc = "done" /\ run = 2 => order = firstOrder)

C5_Witness ==
    /\ opc = "done"
    /\ run = 2
    /\ order = firstOrder
    /\ fks # {}
    /\ Cardinality(ZeroInDegree(TableNames(numTables), TableEdges)) >= 2

(***************************************************************************)
(* withRetry (src/lib/retry.ts).  fn is invoked synchronously by the       *)
(* wrapper and settles later; the wrapper's steps are the stretches of     *)
(* code between two awaits.  The error raised by invocation i is named i,  *)
(* and so is the value invocation i resolves with.                         *)
(***************************************************************************)
ClampOptionKeeps(x) == x

\* Math.max(0, x)
ClampOption(x) == IF x > 0 THEN x ELSE 0

Retries == ClampOption(optRetries)

BaseDelayMs == ClampOption(optBaseDelay)

LoopContinuesExclusive(a, r) == a < r

\* for (...; attempt <= retries; ...)
LoopContinues(a, r) == a <= r

BreaksOneEarly(a, r) == a + 1 >= r

\* if (attempt >= retries) break;
BreaksAfterFailure(a, r) == a >= r

DelayMsLinear(base, a) == base * (a + 1)

DelayMsDivides(base, a) == base \div (2 ^ a)

\* baseDelayMs * 2 ** attempt
DelayMs(base, a) == base * (2 ^ a)

AttemptsIsRetries(r) == r

\* const attempts = retries + 1;
Attempts(r) == r + 1

\* throw new RetryError(`Operation failed after ${attempts} attempt(s): ...`, lastError)
ThrowRetryError(err) ==
    /\ result' = "threw"
    /\ msgAttempts' = Attempts(Retries)
    /\ cause' = err
    /\ rpc' = "done"

\* The head of the for loop with the loop variable at a, up to the next await:
\* either fn is invoked, or the loop is left and the RetryError is thrown.
\* fl is the number of invocations in flight, err the value of lastError.
Iterate(a, err, fl) ==
    IF LoopContinues(a, Retries)
    THEN /\ attempt' = a
         /\ calls' = calls + 1
         /\ inFlight' = fl + 1
         /\ rpc' = "inflight"
         /\ UNCHANGED <<result, msgAttempts, cause>>
    ELSE /\ attempt' = a
         /\ inFlight' = fl
         /\ ThrowRetryError(err)
         /\ UNCHANGED calls

\* withRetry is called: the options are clamped and the first attempt starts.
StartRetry ==
    /\ rpc = "init"
    /\ Iterate(0, lastError, inFlight)
    /\ UNCHANGED <<optRetries, optBaseDelay, failures, lastError, slept, value>>
    /\ UNCHANGED <<orderVars, diffVars, synthVars, schemaVars, cmdVars, libVars>>

\* return await fn(): the invocation in flight resolves.
FnResolves ==
    /\ rpc = "inflight"
    /\ inFlight' = inFlight - 1
    /\ result' = "returned"
    /\ value' = calls
    /\ rpc' = "done"
    /\ UNCHANGED <<optRetries, optBaseDelay, attempt, calls, failures, lastError,
                   slept, msgAttempts, cause>>
    /\ UNCHANGED <<orderVars, diffVars, synthVars, schemaVars, cmdVars, libVars>>

\* catch (error): the invocation in flight rejects.
FnRejects ==
    /\ rpc = "inflight"
    /\ failures' = failures + 1
    /\ lastError' = calls
    /\ IF BreaksAfterFailure(attempt, Retries)
       THEN /\ ThrowRetryError(calls)
            /\ inFlight' = inFlight - 1
            /\ UNCHANGED <<attempt, calls, slept>>
       ELSE IF DelayMs(BaseDelayMs, attempt) > 0
            THEN /\ slept' = Append(slept, <<attempt, DelayMs(BaseDelayMs, attempt)>>)
                 /\ rpc' = "sleeping"
                 /\ inFlight' = inFlight - 1
                 /\ UNCHANGED <<attempt, calls, result, msgAttempts, cause>>
            ELSE \* no sleep: attempt++ and the loop head at once
                 /\ Iterate(attempt + 1, calls, inFlight - 1)
                 /\ UNCHANGED slept
    /\ UNCHANGED <<optRetries, optBaseDelay, value>>
    /\ UNCHANGED <<orderVars, diffVars, synthVars, schemaVars, cmdVars, libVars>>

\* await sleep(delayMs) is over: attempt++ and the loop head.
SleepElapses ==
    /\ rpc = "sleeping"
    /\ Iterate(attempt + 1, lastError, inFlight)
    /\ UNCHANGED <<optRetries, optBaseDelay, failures, lastError, slept, value>>
    /\ UNCHANGED <<orderVars, diffVars, synthVars, schemaVars, cmdVars, libVars>>

InitRetry ==
    /\ optRetries \in (-1)..MaxRetries
    /\ optBaseDelay \in (-1)..MaxBaseDelay
    /\ attempt = 0
    /\ calls = 0
    /\ failures = 0
    /\ inFlight = 0
    /\ rpc = "init"
    /\ lastError = 0
    /\ slept = <<>>
    /\ result = "pending"
    /\ value = 0
    /\ msgAttempts = 0
    /\ cause = 0
    /\ IdleOrder
    /\ IdleDiff
    /\ IdleSynth
    /\ IdleSchema
    /\ IdleCmd
    /\ IdleLib

NextRetry == StartRetry \/ FnResolves \/ FnRejects \/ SleepElapses

SpecRetry == InitRetry /\ [][NextRetry]_vars

(***************************************************************************)
(* Properties of withRetry.                                                *)
(***************************************************************************)
\* C6: whenever the operation has failed k <= retries times and then
\* succeeds, withRetry returns the value of that invocation, the operation
\* has been invoked exactly k + 1 times, the wrapper never gave up while at
\* most retries invocations had failed, and there is no invocation after
\* the success.
C6_ReturnsFirstSuccess ==
    /\ [](optRetries >= 0 =>
            /\ result = "returned" =>
                  /\ failures <= optRetries
                  /\ calls = failures + 1
                  /\ value = calls
            /\ result = "threw" => failures > optRetries
            /\ (result = "pending" /\ rpc # "init" /\ rpc # "sleeping") =>
                  calls = failures + 1)
    /\ [][result = "returned" => (calls' = calls /\ result' = "returned")]_vars

C6_Witness ==
    /\ result = "returned"
    /\ optRetries = MaxRetries
    /\ failures = optRetries
    /\ calls = optRetries + 1
    /\ value = calls

\* C7: an operation that always fails is invoked exactly retries + 1 times;
\* withRetry then fails with a RetryError whose message reports retries + 1
\* attempts and whose cause is the error of the last invocation; withRetry
\* never completes without either a success value or that error.
C7_ExhaustionRaisesRetryError ==
    optRetries >= 0 =>
        /\ result = "threw" =>
              /\ calls = optRetries + 1
              /\ failures = calls
              /\ msgAttempts = optRetries + 1
              /\ cause = calls
              /\ rpc = "done"
        /\ (failures = calls /\ calls = optRetries + 1 /\ inFlight = 0) =>
              result = "threw"
        /\ rpc = "done" => result \in {"returned", "threw"}
        /\ result = "returned" => (value = calls /\ failures = calls - 1)

C7_Witness ==
    /\ result = "threw"
    /\ optRetries = 2
    /\ calls = 3
    /\ msgAttempts = 3
    /\ cause = 3

\* C8: after the failure of attempt i < retries the wrapper waits exactly
\* baseDelay * 2^i before the next attempt; it waits neither before the
\* first attempt nor after the final failed attempt.
C8_BackoffSchedule ==
    (optRetries >= 0 /\ optBaseDelay >= 0) =>
        /\ \A j \in DOMAIN slept :
              /\ slept[j][1] = j - 1
              /\ slept[j][1] < optRetries
              /\ slept[j][2] = optBaseDelay * (2 ^ (j - 1))
        /\ calls <= 1 /\ failures = 0 => slept = <<>>
        /\ optBaseDelay = 0 => slept = <<>>
        /\ optBaseDelay > 0 =>
              Len(slept) = IF result = "threw" THEN failures - 1 ELSE failures
        /\ rpc = "sleeping" => (inFlight = 0 /\ Len(slept) = calls)
        /\ result = "threw" => Len(slept) <= optRetries

C8_Witness ==
    /\ result = "threw"
    /\ optRetries = MaxRetries
    /\ optBaseDelay = MaxBaseDelay
    /\ Len(slept) = MaxRetries
    /\ slept[MaxRetries] = <<MaxRetries - 1, MaxBaseDelay * (2 ^ (MaxRetries - 1))>>

(***************************************************************************)
(* The diff command (src/commands/diff.ts) with the Logger                 *)
(* (src/lib/logger.ts).  A text is the sequence of its lines.  The lines   *)
(* of the model are two header timestamp lines, which differ in the time   *)
(* only, and two body lines.                                               *)
(***************************************************************************)
TimestampLines == {"-- Generated: t1", "-- Generated: t2"}

BodyLines == {"CREATE TABLE a (id)", "CREATE TABLE b (id)"}

Lines == TimestampLines \cup BodyLines

Texts == UNION {[1..k -> Lines] : k \in 0..MaxLines}

\* Logger.info, Logger.success, Logger.warn: silent under quiet.
LoggerEmit(q, o, item) == IF ~q THEN Append(o, item) ELSE o

RECURSIVE LcsLen(_, _)
LcsLen(a, b) ==
    IF a = <<>> \/ b = <<>> THEN 0
    ELSE IF Head(a) = Head(b) THEN 1 + LcsLen(Tail(a), Tail(b))
    ELSE IF LcsLen(Tail(a), b) >= LcsLen(a, Tail(b))
         THEN LcsLen(Tail(a), b)
         ELSE LcsLen(a, Tail(b))

\* The line-level edit script of a longest-common-subsequence diff, one
\* entry per line: "equal", "removed" (only in a) or "added" (only in b).
RECURSIVE EditScript(_, _)
EditScript(a, b) ==
    IF a = <<>> THEN [i \in 1..Len(b) |-> "added"]
    ELSE IF b = <<>> THEN [i \in 1..Len(a) |-> "removed"]
    ELSE IF Head(a) = Head(b) THEN <<"equal">> \o EditScript(Tail(a), Tail(b))
    ELSE IF LcsLen(Tail(a), b) >= LcsLen(a, Tail(b))
         THEN <<"removed">> \o EditScript(Tail(a), b)
         ELSE <<"added">> \o EditScript(a, Tail(b))

\* Consecutive lines of one kind form one part of the result.
RECURSIVE Parts(_)
Parts(script) ==
    IF script = <<>> THEN <<>>
    ELSE IF Len(script) >= 2 /\ script[1] = script[2]
         THEN LET rest == Parts(Tail(script))
              IN  <<[kind |-> rest[1].kind, count |-> rest[1].count + 1]>> \o Tail(rest)
         ELSE <<[kind |-> script[1], count |-> 1]>> \o Parts(Tail(script))

\* Diff.diffLines(sql1, sql2).  The result for two empty texts is the
\* library's: one unchanged part of count 0, or no part at all.
DiffLines(a, b) ==
    IF a = <<>> /\ b = <<>>
    THEN IF emptyDiffRun THEN <<[kind |-> "equal", count |-> 0]>> ELSE <<>>
    ELSE Parts(EditScript(a, b))

IsIdenticalIgnoresKind(diffs) == Len(diffs) = 1

\* diffs.length === 1 && !diffs[0].added && !diffs[0].removed
IsIdentical(diffs) == Len(diffs) = 1 /\ diffs[1].kind = "equal"

\* errors.ts: CliError carries exit code 1 (connection), 2 (invalid
\* arguments) or 3 (not found); anything else thrown is not a CliError.
CliError(c) == [kind |-> "CliError", code |-> c]

connectionError == CliError(1)

invalidArgsError == CliError(2)

notFoundError == CliError(3)

OtherError == [kind |-> "Error", code |-> 0]

ExitCodeIsCodeField(e) == e.code

\* The catch of the command's action: a CliError exits with its own code,
\* any other thrown value with code 1.
ExitCodeOf(e) == IF e.kind = "CliError" THEN e.code ELSE 1

\* diffFormat !== "diff" && diffFormat !== "migration" is an error
ValidDiffFormat(f) == f \in {"diff", "migration"}

AnySettled(s) == s # {}

\* Promise.all resolves when both getSchemaSql calls have resolved.
AllResolved(s) == s = {1, 2}

FailedSides == {i \in {1, 2} : sideErr[i] # NoError}

\* the process is running and Promise.all has been entered
Alive == dpc = "fetch" \/ (dpc = "failed" /\ FailedSides # {})

\* the errors a getSchemaSql call can reject with at each await; what
\* fs.readFile throws is caught and, not being a CliError, swallowed
RejectionsAt(pc, kind) ==
    IF pc = "stat" THEN (IF kind = "directory" THEN {invalidArgsError} ELSE {})
    ELSE IF pc = "connecting" THEN {notFoundError, OtherError}
    ELSE IF pc = "introspecting" THEN {OtherError}
    ELSE {}

\* getSchemaSql up to its first await: existsSync(source), then fs.stat, or
\* else createDbClient
FirstAwait(kind) == IF kind = "absent" THEN "connecting" ELSE "stat"

\* finally { client.close(); }
Closed(c) == IF c = "open" THEN "closed" ELSE c

\* diff() up to Promise.all: the format is checked, the comparison is
\* announced and both getSchemaSql calls are started.
DiffStart ==
    /\ dpc = "init"
    /\ IF ValidDiffFormat(diffFormat)
       THEN /\ out' = LoggerEmit(quiet, out, "info")
            /\ sidePc' = [i \in {1, 2} |-> FirstAwait(srcKind[i])]
            /\ dpc' = "fetch"
            /\ UNCHANGED derr
       ELSE /\ derr' = invalidArgsError
            /\ dpc' = "failed"
            /\ UNCHANGED <<out, sidePc>>
    /\ UNCHANGED <<quiet, diffFormat, emptyDiffRun, sql1, sql2, sides, srcKind, sideClient,
                   sideErr, exitCode>>
    /\ UNCHANGED <<orderVars, retryVars, synthVars, schemaVars, cmdVars, libVars>>

\* fs.stat says regular file: fs.readFile is called
SideStats(i) ==
    /\ Alive
    /\ sidePc[i] = "stat"
    /\ srcKind[i] = "file"
    /\ sidePc' = [sidePc EXCEPT ![i] = "reading"]
    /\ UNCHANGED <<quiet, diffFormat, emptyDiffRun, sql1, sql2, sides, srcKind, sideClient,
                   sideErr, derr, exitCode, dpc, out>>
    /\ UNCHANGED <<orderVars, retryVars, synthVars, schemaVars, cmdVars, libVars>>

\* fs.readFile rejects: the catch swallows the error and control falls
\* through to the database branch, where createDbClient is called
SideFallsThrough(i) ==
    /\ Alive
    /\ sidePc[i] = "reading"
    /\ sidePc' = [sidePc EXCEPT ![i] = "connecting"]
    /\ UNCHANGED <<quiet, diffFormat, emptyDiffRun, sql1, sql2, sides, srcKind, sideClient,
                   sideErr, derr, exitCode, dpc, out>>
    /\ UNCHANGED <<orderVars, retryVars, synthVars, schemaVars, cmdVars, libVars>>

\* createDbClient resolves: introspectSchema is called
SideConnects(i) ==
    /\ Alive
    /\ sidePc[i] = "connecting"
    /\ sideClient' = [sideClient EXCEPT ![i] = "open"]
    /\ sidePc' = [sidePc EXCEPT ![i] = "introspecting"]
    /\ UNCHANGED <<quiet, diffFormat, emptyDiffRun, sql1, sql2, sides, srcKind,
                   sideErr, derr, exitCode, dpc, out>>
    /\ UNCHANGED <<orderVars, retryVars, synthVars, schemaVars, cmdVars, libVars>>

\* getSchemaSql(db_i) resolves with a text: the file read verbatim, or the
\* rendering of the Schema, after which the client is closed.
\* A side still in flight when the other one has failed may settle until
\* the process exits.
SideResolves(i) ==
    /\ Alive
    /\ i \notin sides \cup FailedSides
    /\ sidePc[i] \in {"reading", "introspecting"}
    /\ sides' = sides \cup {i}
    /\ sidePc' = [sidePc EXCEPT ![i] = "resolved"]
    /\ sideClient' = [sideClient EXCEPT ![i] = Closed(sideClient[i])]
    /\ \E t \in Texts :
          IF i = 1 THEN sql1' = t /\ UNCHANGED sql2
                   ELSE sql2' = t /\ UNCHANGED sql1
    /\ UNCHANGED <<quiet, diffFormat, emptyDiffRun, srcKind, sideErr, derr, exitCode, dpc, out>>
    /\ UNCHANGED <<orderVars, retryVars, synthVars, schemaVars, cmdVars, libVars>>

\* getSchemaSql(db_i) rejects; Promise.all, and with it diff(), rejects with
\* the error of the first call that rejects.
SideRejects(i) ==
    /\ Alive
    /\ i \notin sides \cup FailedSides
    /\ \E e \in RejectionsAt(sidePc[i], srcKind[i]) :
          /\ sideErr' = [sideErr EXCEPT ![i] = e]
          /\ derr' = IF derr = NoError THEN e ELSE derr
    /\ sidePc' = [sidePc EXCEPT ![i] = "rejected"]
    /\ sideClient' = [sideClient EXCEPT ![i] = Closed(sideClient[i])]
    /\ dpc' = "failed"
    /\ UNCHANGED <<quiet, diffFormat, emptyDiffRun, sql1, sql2, sides, srcKind, exitCode, out>>
    /\ UNCHANGED <<orderVars, retryVars, synthVars, schemaVars, cmdVars, libVars>>

\* After Promise.all: the migration warning, the patch, the comparison and
\* the output of either the identical message or the patch.
Compare ==
    /\ dpc = "fetch"
    /\ AllResolved(sides)
    /\ LET warned == IF diffFormat = "migration"
                     THEN LoggerEmit(quiet, out, "warn")
                     ELSE out
       IN  out' = IF IsIdentical(DiffLines(sql1, sql2))
                  THEN LoggerEmit(quiet, warned, "identical")
                  ELSE Append(warned, "patch")
    /\ dpc' = "done"
    /\ UNCHANGED <<quiet, diffFormat, emptyDiffRun, sql1, sql2, sides, srcKind, sidePc,
                   sideClient, sideErr, derr, exitCode>>
    /\ UNCHANGED <<orderVars, retryVars, synthVars, schemaVars, cmdVars, libVars>>

\* index.ts, the catch of the diff action: the error is printed and
\* process.exit ends the process, whatever is still in flight.
DiffExit ==
    /\ dpc = "failed"
    /\ out' = Append(out, "error")
    /\ exitCode' = ExitCodeOf(derr)
    /\ dpc' = "exited"
    /\ UNCHANGED <<quiet, diffFormat, emptyDiffRun, sql1, sql2, sides, srcKind, sidePc,
                   sideClient, sideErr, derr>>
    /\ UNCHANGED <<orderVars, retryVars, synthVars, schemaVars, cmdVars, libVars>>

InitDiff ==
    /\ quiet \in BOOLEAN
    /\ diffFormat \in {"diff", "migration", "bogus"}
    /\ emptyDiffRun \in BOOLEAN
    /\ sql1 = <<>>
    /\ sql2 = <<>>
    /\ sides = {}
    /\ srcKind \in [{1, 2} -> {"file", "directory", "absent"}]
    /\ sidePc = [i \in {1, 2} |-> "idle"]
    /\ sideClient = [i \in {1, 2} |-> "none"]
    /\ sideErr = [i \in {1, 2} |-> NoError]
    /\ derr = NoError
    /\ exitCode = 0
    /\ dpc = "init"
    /\ out = <<>>
    /\ IdleOrder
    /\ IdleRetry
    /\ IdleSynth
    /\ IdleSchema
    /\ IdleCmd
    /\ IdleLib

NextDiff ==
    \/ DiffStart
    \/ \E i \in {1, 2} : SideStats(i)
    \/ \E i \in {1, 2} : SideFallsThrough(i)
    \/ \E i \in {1, 2} : SideConnects(i)
    \/ \E i \in {1, 2} : SideResolves(i)
    \/ \E i \in {1, 2} : SideRejects(i)
    \/ Compare
    \/ DiffExit

SpecDiff == InitDiff /\ [][NextDiff]_vars

(***************************************************************************)
(* Properties of the diff command.                                         *)
(***************************************************************************)
\* The two texts have the same number of lines, both begin with a header
\* timestamp line, these two lines differ, and all other lines are equal.
DifferOnlyInTimestamp(a, b) ==
    /\ Len(a) = Len(b)
    /\ Len(a) >= 1
    /\ a[1] \in TimestampLines
    /\ b[1] \in TimestampLines
    /\ a[1] # b[1]
    /\ \A i \in 2..Len(a) : a[i] = b[i]

\* C9: two texts that differ only in the header comment's timestamp line
\* compare as equal: the identical message is reported and no patch is
\* printed (stated for runs without quiet, where the Logger prints messages).
C9_TimestampLineIgnored ==
    (dpc = "done" /\ ~quiet /\ DifferOnlyInTimestamp(sql1, sql2)) =>
        /\ "identical" \in Range(out)
        /\ "patch" \notin Range(out)

\* C10: for every pair of line-for-line equal texts, two empty texts
\* included, diff reports the identical signal and prints no patch.
C10_EqualTextsReportedIdentical ==
    (dpc = "done" /\ sql1 = sql2) =>
        /\ "identical" \in Range(out)
        /\ "patch" \notin Range(out)

(***************************************************************************)
(* The SQL Synthesizer (lib/formatter.ts, formatSql; modelled from spec.md *)
(* section 4.3).  A table is given by its index origins and the groupId of *)
(* each of its foreign-key rows; a statement by its kind, its table and    *)
(* the index position or groupId it renders.                               *)
(***************************************************************************)

\* PRAGMA index_list origins: c (CREATE INDEX), u (UNIQUE constraint), pk.
IndexLists == {<<>>, <<"c">>, <<"pk", "u", "c">>, <<"c", "u", "c">>}

\* foreign_key_list rows by id: rows of one constraint are adjacent.
FkLists == {<<>>, <<0>>, <<0, 0>>, <<0, 1>>, <<0, 0, 1>>}

SynthTables ==
    {[virtual |-> FALSE, indexes |-> il, fkRows |-> fl] : il \in IndexLists, fl \in FkLists}
        \cup {[virtual |-> TRUE, indexes |-> <<>>, fkRows |-> <<>>]}

Stmt(k, t, i) == [kind |-> k, table |-> t, item |-> i]

IsNotPrimaryKey(origin) == origin # "pk"

\* only origin = explicit indexes are rendered on their own
IsExplicit(origin) == origin = "c"

EveryRow(rows, i) == i \in DOMAIN rows

\* rows are re-grouped by groupId: row i opens a group iff no earlier row has its id
FirstOfGroup(rows, i) == \A j \in 1..(i - 1) : rows[j] # rows[i]

TableStatement(t) ==
    <<Stmt(IF synTables[t].virtual THEN "comment" ELSE "table", t, 0)>>

IndexStatements(t) ==
    LET idx == synTables[t].indexes
        all == [i \in DOMAIN idx |-> Stmt("index", t, i)]
    IN  SelectSeq(all, LAMBDA st : IsExplicit(idx[st.item]))

FkStatements(t) ==
    LET rows == synTables[t].fkRows
        all == [i \in DOMAIN rows |-> Stmt("fk", t, i)]
        firsts == SelectSeq(all, LAMBDA st : FirstOfGroup(rows, st.item))
    IN  [k \in DOMAIN firsts |-> Stmt("fk", t, rows[firsts[k].item])]

RECURSIVE AllFkStatements(_)
AllFkStatements(n) ==
    IF n = 0 THEN <<>> ELSE AllFkStatements(n - 1) \o FkStatements(n)

\* the header comment
SynthStart ==
    /\ spc = "init"
    /\ sqlScript' = Append(sqlScript, Stmt("header", 0, 0))
    /\ spc' = "tables"
    /\ UNCHANGED <<synTables, synViews, synTriggers, sti>>
    /\ UNCHANGED notSynth

\* the next table in order: its definition, then its explicit indexes
SynthTable ==
    /\ spc = "tables"
    /\ sti < Len(synTables)
    /\ sqlScript' = sqlScript \o TableStatement(sti + 1) \o IndexStatements(sti + 1)
    /\ sti' = sti + 1
    /\ UNCHANGED <<synTables, synViews, synTriggers, spc>>
    /\ UNCHANGED notSynth

\* after all tables: one ALTER TABLE per foreign-key group, across all tables
SynthForeignKeys ==
    /\ spc = "tables"
    /\ sti = Len(synTables)
    /\ sqlScript' = sqlScript \o AllFkStatements(Len(synTables))
    /\ spc' = "tail"
    /\ UNCHANGED <<synTables, synViews, synTriggers, sti>>
    /\ UNCHANGED notSynth

\* all views, then all triggers, in Snapshot order
SynthViewsAndTriggers ==
    /\ spc = "tail"
    /\ sqlScript' = sqlScript \o [i \in DOMAIN synViews |-> Stmt("view", 0, i)]
                        \o [i \in DOMAIN synTriggers |-> Stmt("trigger", 0, i)]
    /\ spc' = "done"
    /\ UNCHANGED <<synTables, synViews, synTriggers, sti>>
    /\ UNCHANGED notSynth

InitSynth ==
    /\ synTables \in UNION {[1..n -> SynthTables] : n \in 0..MaxSynTables}
    /\ synViews \in {<<>>, <<"v">>}
    /\ synTriggers \in {<<>>, <<"trg">>}
    /\ sqlScript = <<>>
    /\ sti = 0
    /\ spc = "init"
    /\ IdleOrder
    /\ IdleRetry
    /\ IdleDiff
    /\ IdleSchema
    /\ IdleCmd
    /\ IdleLib

NextSynth == SynthStart \/ SynthTable \/ SynthForeignKeys \/ SynthViewsAndTriggers

SpecSynth == InitSynth /\ [][NextSynth]_vars

(***************************************************************************)
(* introspectSchema (src/lib/schema.ts).  A name is a sequence of tokens,  *)
(* a system prefix being a token of its own; the database is fixed: the    *)
(* rows below are what sqlite_master and the PRAGMAs hold.                 *)
(***************************************************************************)

Row(t, n) == [type |-> t, name |-> n]

\* SELECT type, name, sql, tbl_name FROM sqlite_master ... ORDER BY name
MasterRows ==
    << Row("table", <<"_cf_", "KV">>),
       Row("trigger", <<"_cf_", "trg">>),
       Row("table", <<"_litestream_", "seq">>),
       Row("index", <<"idx_users_email">>),
       Row("table", <<"orders">>),
       Row("table", <<"sqlite_", "sequence">>),
       Row("trigger", <<"trg_users">>),
       Row("table", <<"users">>),
       Row("view", <<"v_orders">>) >>

KthSmallest(S, k) == CHOOSE x \in S : Cardinality({y \in S : y < x}) = k - 1

\* the rows of a database that holds the objects S, in the query's order
CatalogOf(S) == [k \in 1..Cardinality(S) |-> MasterRows[KthSmallest(S, k)]]

Catalogs ==
    {CatalogOf(S) : S \in {T \in SUBSET DOMAIN MasterRows : Cardinality(T) <= MaxCatalog}}

Given(names) == [defined |-> TRUE, names |-> names]

TablesOptions ==
    {Undefined, Given(<<>>), Given(<<<<"users">>>>),
     Given(<<<<"users">>, <<"sqlite_", "sequence">>, <<"v_orders">>>>)}

ExcludeOptions ==
    {Undefined, Given(<<<<"users">>>>), Given(<<<<"orders">>, <<"_cf_", "KV">>>>)}

\* PRAGMA index_list(t)
IndexListOf(t) ==
    IF t = <<"users">>
    THEN << [name |-> <<"idx_users_email">>, origin |-> "c"],
            [name |-> <<"sqlite_", "autoindex_users_1">>, origin |-> "pk"] >>
    ELSE IF t = <<"orders">>
    THEN << [name |-> <<"sqlite_", "autoindex_orders_1">>, origin |-> "u"] >>
    ELSE <<>>

Pragmas == <<"table_info", "foreign_key_list", "index_list">>

\* the rows a PRAGMA returns, identified by the PRAGMA and its argument
Rows(pragma, arg) == [pragma |-> pragma, of |-> arg]

Pending == Rows("pending", <<>>)

StartsWith(name, prefix) == Len(name) >= 1 /\ name[1] = prefix

SystemPrefixesWithoutCf == {"sqlite_", "_litestream_"}

SystemPrefixes == {"sqlite_", "_litestream_", "_cf_"}

IsSystemName(name) == \E p \in SystemPrefixes : StartsWith(name, p)

Includes(list, name) == name \in Range(list.names)

IncludeListDefined(list) == list.defined

\* options.tables && options.tables.length > 0
IncludeListGiven(list) == list.defined /\ Len(list.names) > 0

shouldSkip(name) ==
    IF ~optIncludeSystem /\ IsSystemName(name) THEN TRUE
    ELSE IF optExcludeTables.defined /\ Includes(optExcludeTables, name) THEN TRUE
    ELSE IF IncludeListGiven(optTables) /\ ~Includes(optTables, name) THEN TRUE
    ELSE FALSE

\* the names of the rows of one type the scan loop keeps, in catalog order
Kept(type) ==
    LET rows == SelectSeq(catalog, LAMBDA r : r.type = type /\ ~shouldSkip(r.name))
    IN  [k \in DOMAIN rows |-> rows[k].name]

SettleInArrivalOrder(sl, k, v) ==
    [sl EXCEPT ![CHOOSE i \in DOMAIN sl : sl[i] = Pending /\ \A j \in 1..(i - 1) : sl[j] # Pending] = v]

\* Promise.all keeps each result at the position of its promise
Settle(sl, k, v) == [sl EXCEPT ![k] = v]

AllSettled(sl) == \A k \in DOMAIN sl : sl[k] # Pending

CurrentTable == tablesToProcess[ti]

\* the master query returns and the scan loop sorts its rows
ScanCatalog ==
    /\ hpc = "init"
    /\ indexSqlMap' = {r.name : r \in {x \in Range(catalog) : x.type = "index"}}
    /\ tablesToProcess' = Kept("table")
    /\ viewsToProcess' = Kept("view")
    /\ triggersToProcess' = Kept("trigger")
    /\ hpc' = "tables"
    /\ UNCHANGED <<catalog, optIncludeSystem, optTables, optExcludeTables, ti, slots,
                   idxSlots, snapTables, snapshot>>
    /\ UNCHANGED notSchema

\* the next table: its three PRAGMAs are issued together
StartTable ==
    /\ hpc = "tables"
    /\ ti < Len(tablesToProcess)
    /\ ti' = ti + 1
    /\ slots' = [k \in DOMAIN Pragmas |-> Pending]
    /\ idxSlots' = <<>>
    /\ hpc' = "pragmas"
    /\ UNCHANGED <<catalog, optIncludeSystem, optTables, optExcludeTables, tablesToProcess,
                   viewsToProcess, triggersToProcess, indexSqlMap, snapTables, snapshot>>
    /\ UNCHANGED notSchema

\* one of the three PRAGMAs completes
PragmaCompletes(k) ==
    /\ hpc = "pragmas"
    /\ slots[k] = Pending
    /\ slots' = Settle(slots, k, Rows(Pragmas[k], CurrentTable))
    /\ UNCHANGED <<catalog, optIncludeSystem, optTables, optExcludeTables, tablesToProcess,
                   viewsToProcess, triggersToProcess, indexSqlMap, ti, idxSlots,
                   snapTables, snapshot, hpc>>
    /\ UNCHANGED notSchema

\* all three have completed: one index_info is issued per row of index_list
StartIndexes ==
    /\ hpc = "pragmas"
    /\ AllSettled(slots)
    /\ idxSlots' = [i \in DOMAIN IndexListOf(slots[3].of) |-> Pending]
    /\ hpc' = "indexes"
    /\ UNCHANGED <<catalog, optIncludeSystem, optTables, optExcludeTables, tablesToProcess,
                   viewsToProcess, triggersToProcess, indexSqlMap, ti, slots,
                   snapTables, snapshot>>
    /\ UNCHANGED notSchema

\* PRAGMA index_info of the i-th index completes
IndexInfoCompletes(i) ==
    /\ hpc = "indexes"
    /\ i \in DOMAIN idxSlots
    /\ idxSlots[i] = Pending
    /\ idxSlots' = Settle(idxSlots, i, Rows("index_info", IndexListOf(slots[3].of)[i].name))
    /\ UNCHANGED <<catalog, optIncludeSystem, optTables, optExcludeTables, tablesToProcess,
                   viewsToProcess, triggersToProcess, indexSqlMap, ti, slots,
                   snapTables, snapshot, hpc>>
    /\ UNCHANGED notSchema

\* tables.push({ name, sql, columns, foreignKeys, indexes })
PushTable ==
    /\ hpc = "indexes"
    /\ AllSettled(idxSlots)
    /\ LET idxRows == IndexListOf(slots[3].of)
           indexes == [i \in DOMAIN idxSlots |->
                         [name |-> idxRows[i].name,
                          origin |-> idxRows[i].origin,
                          columns |-> idxSlots[i],
                          sql |-> idxRows[i].name \in indexSqlMap]]
       IN  snapTables' = Append(snapTables,
                                [name |-> CurrentTable,
                                 columns |-> slots[1],
                                 foreignKeys |-> slots[2],
                                 indexes |-> indexes])
    /\ hpc' = "tables"
    /\ UNCHANGED <<catalog, optIncludeSystem, optTables, optExcludeTables, tablesToProcess,
                   viewsToProcess, triggersToProcess, indexSqlMap, ti, slots, idxSlots,
                   snapshot>>
    /\ UNCHANGED notSchema

\* a query in flight rejects: introspectSchema rejects
QueryRejects ==
    /\ \/ hpc = "init"
       \/ hpc = "pragmas" /\ ~AllSettled(slots)
       \/ hpc = "indexes" /\ ~AllSettled(idxSlots)
    /\ hpc' = "failed"
    /\ UNCHANGED <<catalog, optIncludeSystem, optTables, optExcludeTables, tablesToProcess,
                   viewsToProcess, triggersToProcess, indexSqlMap, ti, slots, idxSlots,
                   snapTables, snapshot>>
    /\ UNCHANGED notSchema

\* the views and triggers are copied and the Schema is returned
ReturnSchema ==
    /\ hpc = "tables"
    /\ ti = Len(tablesToProcess)
    /\ snapshot' = [tables |-> snapTables, views |-> viewsToProcess,
                    triggers |-> triggersToProcess, returned |-> TRUE]
    /\ hpc' = "done"
    /\ UNCHANGED <<catalog, optIncludeSystem, optTables, optExcludeTables, tablesToProcess,
                   viewsToProcess, triggersToProcess, indexSqlMap, ti, slots, idxSlots,
                   snapTables>>
    /\ UNCHANGED notSchema

InitSchema ==
    /\ catalog \in Catalogs
    /\ optIncludeSystem \in BOOLEAN
    /\ optTables \in TablesOptions
    /\ optExcludeTables \in ExcludeOptions
    /\ tablesToProcess = <<>>
    /\ viewsToProcess = <<>>
    /\ triggersToProcess = <<>>
    /\ indexSqlMap = {}
    /\ ti = 0
    /\ slots = <<>>
    /\ idxSlots = <<>>
    /\ snapTables = <<>>
    /\ snapshot = NoSchema
    /\ hpc = "init"
    /\ IdleOrder
    /\ IdleRetry
    /\ IdleDiff
    /\ IdleSynth
    /\ IdleCmd
    /\ IdleLib

NextSchema ==
    \/ ScanCatalog
    \/ StartTable
    \/ \E k \in DOMAIN Pragmas : PragmaCompletes(k)
    \/ StartIndexes
    \/ \E i \in DOMAIN idxSlots : IndexInfoCompletes(i)
    \/ PushTable
    \/ QueryRejects
    \/ ReturnSchema

SpecSchema == InitSchema /\ [][NextSchema]_vars

(***************************************************************************)
(* The introspect command (src/commands/introspect.ts) as index.ts calls   *)
(* it: commander parses --retries and --retry-delay with Number.parseInt.  *)
(***************************************************************************)

DefaultRetries == 3
DefaultRetryDelay == 500

Digits == <<"0", "1", "2", "3", "4", "5", "6", "7", "8", "9">>

IsDigit(c) == c \in Range(Digits)

DigitValue(c) == (CHOOSE i \in DOMAIN Digits : Digits[i] = c) - 1

RECURSIVE DigitsValue(_)
DigitsValue(ds) ==
    IF ds = <<>> THEN 0
    ELSE DigitsValue(SubSeq(ds, 1, Len(ds) - 1)) * 10 + DigitValue(ds[Len(ds)])

NaN == [nan |-> TRUE, n |-> 0]

Number(n) == [nan |-> FALSE, n |-> n]

\* Number.parseInt(text, 10): an optional sign, then the longest run of
\* digits; NaN if there is no digit; whatever follows is ignored.
ParseInt(text) ==
    LET negative == text # <<>> /\ text[1] = "-"
        body == IF negative THEN Tail(text) ELSE text
        digitRun == CHOOSE k \in 0..Len(body) :
                  /\ \A i \in 1..k : IsDigit(body[i])
                  /\ k < Len(body) => ~IsDigit(body[k + 1])
    IN  IF digitRun = 0 THEN NaN
        ELSE Number((IF negative THEN -1 ELSE 1) * DigitsValue(SubSeq(body, 1, digitRun)))

Passed(text) == [passed |-> TRUE, text |-> text]

\* the option as commander hands it over: the parsed text, or the default
OptionValue(raw, default) == IF raw.passed THEN ParseInt(raw.text) ELSE Number(default)

CmdRetries == OptionValue(rawRetries, DefaultRetries)

CmdRetryDelay == OptionValue(rawRetryDelay, DefaultRetryDelay)

RejectsOnlyNaN(v) == v.nan

\* !Number.isFinite(v) || v < 0
RejectedNumber(v) == v.nan \/ v.n < 0

\* !database
Falsy(d) == d \in {"undefined", ""}

\* options.format ?? "sql"
Format == IF optFormat = "undefined" THEN "sql" ELSE optFormat

LoggerVerboseIgnoresQuiet(q, v, o, item) == IF v THEN Append(o, item) ELSE o

\* logger.verbose
LoggerVerbose(q, v, o, item) == IF v /\ ~q THEN Append(o, item) ELSE o

ArgumentsValid ==
    /\ ~Falsy(database)
    /\ Format \in {"sql", "json"}
    /\ ~RejectedNumber(CmdRetries)
    /\ ~RejectedNumber(CmdRetryDelay)

CheckRequestedUnlessStdout == optCheck /\ ~optStdout

\* if (options.check)
CheckRequested == optCheck

IsEmptyWithoutTables(sch) == sch.tables = 0

\* schema.tables.length === 0 && schema.views.length === 0 && schema.triggers.length === 0
IsEmpty(sch) == sch.tables = 0 /\ sch.views = 0 /\ sch.triggers = 0

Called(op) == Append(ioLog, op)

\* introspect() up to its first await: the arguments are validated and
\* createDbClient is called
IntrospectStart ==
    /\ ipc = "init"
    /\ IF ArgumentsValid
       THEN /\ ipc' = "connecting"
            /\ ioLog' = Called("createDbClient")
            /\ UNCHANGED thrown
       ELSE /\ thrown' = invalidArgsError
            /\ ipc' = "failed"
            /\ UNCHANGED ioLog
    /\ UNCHANGED <<database, optFormat, rawRetries, rawRetryDelay, optCheck, optStdout,
                   optQuiet, optVerbose, client, fileWritten, found, console, code>>
    /\ UNCHANGED notCmd

\* createDbClient resolves; with --check SELECT 1 is sent, otherwise the
\* introspection is announced and introspectSchema called
ClientCreated ==
    /\ ipc = "connecting"
    /\ client' = "open"
    /\ IF CheckRequested
       THEN /\ ipc' = "checking"
            /\ ioLog' = Called("SELECT 1")
            /\ UNCHANGED console
       ELSE /\ ipc' = "introspecting"
            /\ ioLog' = Called("introspectSchema")
            /\ console' = IF ~optStdout THEN LoggerEmit(optQuiet, console, "info") ELSE console
    /\ UNCHANGED <<database, optFormat, rawRetries, rawRetryDelay, optCheck, optStdout,
                   optQuiet, optVerbose, fileWritten, found, thrown, code>>
    /\ UNCHANGED notCmd

\* createDbClient rejects: a local file that is missing (notFoundError) or
\* any other error
ClientFails ==
    /\ ipc = "connecting"
    /\ thrown' \in {notFoundError, OtherError}
    /\ ipc' = "failed"
    /\ UNCHANGED <<database, optFormat, rawRetries, rawRetryDelay, optCheck, optStdout,
                   optQuiet, optVerbose, client, fileWritten, ioLog, found, console, code>>
    /\ UNCHANGED notCmd

\* --check: SELECT 1 resolves
CheckSucceeds ==
    /\ ipc = "checking"
    /\ console' = LoggerEmit(optQuiet, console, "connection successful")
    /\ client' = "closed"
    /\ ioLog' = Called("close")
    /\ ipc' = "done"
    /\ UNCHANGED <<database, optFormat, rawRetries, rawRetryDelay, optCheck, optStdout,
                   optQuiet, optVerbose, fileWritten, found, thrown, code>>
    /\ UNCHANGED notCmd

\* --check: SELECT 1 rejects and is rethrown as a connectionError
CheckFails ==
    /\ ipc = "checking"
    /\ thrown' = connectionError
    /\ client' = "closed"
    /\ ioLog' = Called("close")
    /\ ipc' = "failed"
    /\ UNCHANGED <<database, optFormat, rawRetries, rawRetryDelay, optCheck, optStdout,
                   optQuiet, optVerbose, fileWritten, found, console, code>>
    /\ UNCHANGED notCmd

\* introspectSchema resolves: the empty warning, the verbose counts, the
\* rendering, and the output to stdout or the call of fs.writeFile
SchemaResolves(sch) ==
    /\ ipc = "introspecting"
    /\ found' = sch
    /\ LET warned == IF IsEmpty(sch) THEN LoggerEmit(optQuiet, console, "no user tables")
                     ELSE console
           counted == LoggerVerbose(optQuiet, optVerbose, warned, "found")
       IN  IF optStdout
           THEN /\ console' = Append(counted, "output")
                /\ client' = "closed"
                /\ ioLog' = Called("close")
                /\ ipc' = "done"
           ELSE /\ console' = counted
                /\ ioLog' = Called("writeFile")
                /\ ipc' = "writing"
                /\ UNCHANGED client
    /\ UNCHANGED <<database, optFormat, rawRetries, rawRetryDelay, optCheck, optStdout,
                   optQuiet, optVerbose, fileWritten, thrown, code>>
    /\ UNCHANGED notCmd

\* introspectSchema rejects (a RetryError is not a CliError)
SchemaRejects ==
    /\ ipc = "introspecting"
    /\ thrown' = OtherError
    /\ client' = "closed"
    /\ ioLog' = Called("close")
    /\ ipc' = "failed"
    /\ UNCHANGED <<database, optFormat, rawRetries, rawRetryDelay, optCheck, optStdout,
                   optQuiet, optVerbose, fileWritten, found, console, code>>
    /\ UNCHANGED notCmd

\* fs.writeFile resolves
WriteResolves ==
    /\ ipc = "writing"
    /\ fileWritten' = TRUE
    /\ console' = LoggerEmit(optQuiet, console, "schema saved")
    /\ client' = "closed"
    /\ ioLog' = Called("close")
    /\ ipc' = "done"
    /\ UNCHANGED <<database, optFormat, rawRetries, rawRetryDelay, optCheck, optStdout,
                   optQuiet, optVerbose, found, thrown, code>>
    /\ UNCHANGED notCmd

\* fs.writeFile rejects
WriteRejects ==
    /\ ipc = "writing"
    /\ thrown' = OtherError
    /\ client' = "closed"
    /\ ioLog' = Called("close")
    /\ ipc' = "failed"
    /\ UNCHANGED <<database, optFormat, rawRetries, rawRetryDelay, optCheck, optStdout,
                   optQuiet, optVerbose, fileWritten, found, console, code>>
    /\ UNCHANGED notCmd

\* index.ts, the catch of the action: the error is printed and the process exits
IntrospectExit ==
    /\ ipc = "failed"
    /\ console' = Append(console, "error")
    /\ code' = ExitCodeOf(thrown)
    /\ ipc' = "exited"
    /\ UNCHANGED <<database, optFormat, rawRetries, rawRetryDelay, optCheck, optStdout,
                   optQuiet, optVerbose, client, fileWritten, ioLog, found, thrown>>
    /\ UNCHANGED notCmd

\* the Schemas introspectSchema may resolve with, by their numbers of objects
FoundSchemas ==
    {[returned |-> TRUE, tables |-> t, views |-> v, triggers |-> g] :
        t \in 0..MaxObjects, v \in 0..MaxObjects, g \in 0..MaxObjects}

RetriesArgs ==
    {NotPassed, Passed(<<"2">>), Passed(<<"-", "1">>), Passed(<<"a", "b">>),
     Passed(<<"3", "x">>)}

RetryDelayArgs ==
    {NotPassed, Passed(<<"0">>), Passed(<<"-", "5">>), Passed(<<"x", "1">>),
     Passed(<<"1", ".", "5">>)}

InitIntrospect ==
    /\ database \in {"undefined", "", "app.db"}
    /\ optFormat \in {"undefined", "sql", "json", "yaml"}
    /\ rawRetries \in RetriesArgs
    /\ rawRetryDelay \in RetryDelayArgs
    /\ optCheck \in BOOLEAN
    /\ optStdout \in BOOLEAN
    /\ optQuiet \in BOOLEAN
    /\ optVerbose \in BOOLEAN
    /\ client = "none"
    /\ fileWritten = FALSE
    /\ ioLog = <<>>
    /\ found = NothingFound
    /\ console = <<>>
    /\ thrown = NoError
    /\ code = 0
    /\ ipc = "init"
    /\ IdleOrder
    /\ IdleRetry
    /\ IdleDiff
    /\ IdleSynth
    /\ IdleSchema
    /\ IdleLib

NextIntrospect ==
    \/ IntrospectStart
    \/ ClientCreated
    \/ ClientFails
    \/ CheckSucceeds
    \/ CheckFails
    \/ \E sch \in FoundSchemas : SchemaResolves(sch)
    \/ SchemaRejects
    \/ WriteResolves
    \/ WriteRejects
    \/ IntrospectExit

SpecIntrospect == InitIntrospect /\ [][NextIntrospect]_vars

\* either command, as index.ts dispatches it
InitCli == InitIntrospect \/ InitDiff

NextCli == NextIntrospect \/ NextDiff

SpecCli == InitCli /\ [][NextCli]_vars

\* ------------------------------------------------------------------
\* Logger: the five methods called in any order on one Logger
\* ------------------------------------------------------------------

MaxLog == 3

\* console.error for warn and error, console.log for the others
Stream(method) == IF method \in {"warn", "error"} THEN "stderr" ELSE "stdout"

\* The line the next call writes if it writes.
Line(method) == [call |-> Len(logCalls) + 1, method |-> method, stream |-> Stream(method)]

\* error(message): console.error, under no condition
LoggerError(o, item) == Append(o, item)

LogInfo ==
    /\ Len(logCalls) < MaxLog
    /\ logCalls' = Append(logCalls, "info")
    /\ logOut' = LoggerEmit(logQuiet, logOut, Line("info"))
    /\ UNCHANGED <<logQuiet, logVerbose>>
    /\ UNCHANGED notLogger

LogSuccess ==
    /\ Len(logCalls) < MaxLog
    /\ logCalls' = Append(logCalls, "success")
    /\ logOut' = LoggerEmit(logQuiet, logOut, Line("success"))
    /\ UNCHANGED <<logQuiet, logVerbose>>
    /\ UNCHANGED notLogger

LogWarn ==
    /\ Len(logCalls) < MaxLog
    /\ logCalls' = Append(logCalls, "warn")
    /\ logOut' = LoggerEmit(logQuiet, logOut, Line("warn"))
    /\ UNCHANGED <<logQuiet, logVerbose>>
    /\ UNCHANGED notLogger

LogVerbose ==
    /\ Len(logCalls) < MaxLog
    /\ logCalls' = Append(logCalls, "verbose")
    /\ logOut' = LoggerVerbose(logQuiet, logVerbose, logOut, Line("verbose"))
    /\ UNCHANGED <<logQuiet, logVerbose>>
    /\ UNCHANGED notLogger

LogError ==
    /\ Len(logCalls) < MaxLog
    /\ logCalls' = Append(logCalls, "error")
    /\ logOut' = LoggerError(logOut, Line("error"))
    /\ UNCHANGED <<logQuiet, logVerbose>>
    /\ UNCHANGED notLogger

\* new Logger({ quiet, verbose }): an option left out is undefined, which
\* every test of the class reads as false.
InitLogger ==
    /\ logQuiet \in BOOLEAN
    /\ logVerbose \in BOOLEAN
    /\ logCalls = <<>>
    /\ logOut = <<>>
    /\ IdleOrder
    /\ IdleRetry
    /\ IdleDiff
    /\ IdleSynth
    /\ IdleSchema
    /\ IdleCmd
    /\ IdleToken
    /\ IdleProxy

NextLogger == LogInfo \/ LogSuccess \/ LogWarn \/ LogVerbose \/ LogError

SpecLogger == InitLogger /\ [][NextLogger]_vars

\* ------------------------------------------------------------------
\* getAuthToken: --token, TURSO_AUTH_TOKEN, the Turso CLI settings file
\* ------------------------------------------------------------------

\* A token as the code sees it: undefined, the empty string or a text, and
\* whether its JWT header decodes to alg RS256.
Tokens ==
    {NoToken, [text |-> "", platform |-> FALSE]}
        \cup {[text |-> "t", platform |-> p] : p \in BOOLEAN}

Orgs == {"undefined", "", "acme"}

\* if (token): undefined and "" are falsy
Truthy(t) == t.text \notin {"undefined", ""}

\* isPlatformToken(token)
isPlatformToken(t) == Truthy(t) /\ t.platform

SelectedEnvFirst(flag, env) ==
    IF Truthy(env) THEN "env" ELSE IF Truthy(flag) THEN "flag" ELSE "settings"

\* if (tokenFlag) ... if (process.env.TURSO_AUTH_TOKEN) ... else the settings file
Selected(flag, env) ==
    IF Truthy(flag) THEN "flag" ELSE IF Truthy(env) THEN "env" ELSE "settings"

\* The sources looked at before the source src is used.
LookedAt(src) ==
    IF src = "flag" THEN <<"flag">>
    ELSE IF src = "env" THEN <<"flag", "env">>
    ELSE <<"flag", "env", "settings">>

\* if (isPlatformToken(token) && org) return createDatabaseToken(...); return token;
UseToken(src, token) ==
    /\ tokenResult' = [source |-> src, minted |-> FALSE, rejected |-> FALSE]
    /\ tpc' = IF isPlatformToken(token) /\ ~Falsy(tokOrg) THEN "minting" ELSE "done"

\* getAuthToken up to its first await.
GetAuthToken ==
    /\ tpc = "init"
    /\ consulted' = LookedAt(Selected(tokenFlag, envToken))
    /\ IF Selected(tokenFlag, envToken) = "flag" THEN UseToken("flag", tokenFlag)
       ELSE IF Selected(tokenFlag, envToken) = "env" THEN UseToken("env", envToken)
       ELSE /\ tpc' = "settings"
            /\ UNCHANGED tokenResult
    /\ UNCHANGED <<tokenFlag, envToken, settingsToken, tokOrg>>
    /\ UNCHANGED notToken

\* await getTursoPlatformToken() is over: a file that is missing or does not
\* parse gives undefined.
SettingsRead ==
    /\ tpc = "settings"
    /\ IF Truthy(settingsToken) /\ ~Falsy(tokOrg)
       THEN /\ tokenResult' = [source |-> "settings", minted |-> FALSE, rejected |-> FALSE]
            /\ tpc' = "minting"
       ELSE /\ tokenResult' = NoResult
            /\ tpc' = "done"
    /\ UNCHANGED <<tokenFlag, envToken, settingsToken, tokOrg, consulted>>
    /\ UNCHANGED notToken

\* createDatabaseToken: the POST answers ok and the jwt is returned.
TokenCreated ==
    /\ tpc = "minting"
    /\ tokenResult' = [tokenResult EXCEPT !.minted = TRUE]
    /\ tpc' = "done"
    /\ UNCHANGED <<tokenFlag, envToken, settingsToken, tokOrg, consulted>>
    /\ UNCHANGED notToken

\* createDatabaseToken: fetch rejects or the response is not ok.
TokenRefused ==
    /\ tpc = "minting"
    /\ tokenResult' = [tokenResult EXCEPT !.rejected = TRUE]
    /\ tpc' = "done"
    /\ UNCHANGED <<tokenFlag, envToken, settingsToken, tokOrg, consulted>>
    /\ UNCHANGED notToken

InitToken ==
    /\ tokenFlag \in Tokens
    /\ envToken \in Tokens
    /\ settingsToken \in Tokens
    /\ tokOrg \in Orgs
    /\ consulted = <<>>
    /\ tokenResult = NoResult
    /\ tpc = "init"
    /\ IdleOrder
    /\ IdleRetry
    /\ IdleDiff
    /\ IdleSynth
    /\ IdleSchema
    /\ IdleCmd
    /\ IdleLogger
    /\ IdleProxy

NextToken == GetAuthToken \/ SettingsRead \/ TokenCreated \/ TokenRefused

SpecToken == InitToken /\ [][NextToken]_vars

\* ------------------------------------------------------------------
\* createDbClient: the Proxy around the libsql client
\* ------------------------------------------------------------------

MaxProxyCalls == 2

ClientDefaultRetries == 3

ClientDefaultRetryDelay == 500

\* config.retries, config.retryDelayMs: undefined or a number up to max
Configs(max) == {NotConfigured} \cup {[defined |-> TRUE, value |-> v] : v \in 0..max}

\* config.x ?? d
OrDefault(opt, d) == IF opt.defined THEN opt.value ELSE d

retryOptions ==
    [retries |-> OrDefault(cfgRetries, ClientDefaultRetries),
     baseDelayMs |-> OrDefault(cfgRetryDelay, ClientDefaultRetryDelay)]

\* The members of the client a caller uses, and the arguments of a call.
Members == {"execute", "batch", "close"}

Args == {"SELECT 1", "PRAGMA table_info"}

IsRetriedOnlyExecute(prop) == prop = "execute"

\* if (prop === "execute" || prop === "batch")
IsRetried(prop) == prop \in {"execute", "batch"}

\* What the caller of a member got: the invocations of the target's method,
\* the arguments they were made with, and the outcome.
Outcome(member, args, retried) ==
    [member |-> member, args |-> args, retried |-> retried,
     invocations |-> IF retried THEN calls ELSE 1,
     invokedWith |-> args,
     outcome |-> IF retried THEN result ELSE "returned",
     retries |-> IF retried THEN optRetries ELSE 0,
     baseDelayMs |-> IF retried THEN optBaseDelay ELSE 0,
     attempts |-> IF retried THEN msgAttempts ELSE 0]

\* client.<member>(args): get(target, prop) and the call of what it returned.
\* For execute and batch withRetry is called, its locals fresh; any other
\* member is the target's own and is called on it once.
ProxyCall(member, args) ==
    /\ ppc = "ready"
    /\ Len(settled) < MaxProxyCalls
    /\ IF IsRetried(member)
       THEN /\ current' = [member |-> member, args |-> args, retried |-> TRUE]
            /\ ppc' = "running"
            /\ optRetries' = retryOptions.retries
            /\ optBaseDelay' = retryOptions.baseDelayMs
            /\ attempt' = 0
            /\ calls' = 0
            /\ failures' = 0
            /\ inFlight' = 0
            /\ rpc' = "init"
            /\ lastError' = 0
            /\ slept' = <<>>
            /\ result' = "pending"
            /\ value' = 0
            /\ msgAttempts' = 0
            /\ cause' = 0
            /\ UNCHANGED settled
       ELSE /\ settled' = Append(settled, Outcome(member, args, FALSE))
            /\ UNCHANGED <<current, ppc, retryVars>>
    /\ UNCHANGED <<cfgRetries, cfgRetryDelay>>
    /\ UNCHANGED notProxy

\* The promise withRetry returned settles for the caller.
CallSettles ==
    /\ ppc = "running"
    /\ rpc = "done"
    /\ settled' = Append(settled, Outcome(current.member, current.args, TRUE))
    /\ current' = NoCall
    /\ ppc' = "ready"
    /\ UNCHANGED <<cfgRetries, cfgRetryDelay, retryVars>>
    /\ UNCHANGED notProxy

InitProxy ==
    /\ cfgRetries \in Configs(MaxRetries)
    /\ cfgRetryDelay \in Configs(MaxBaseDelay)
    /\ current = NoCall
    /\ settled = <<>>
    /\ ppc = "ready"
    /\ IdleOrder
    /\ IdleRetry
    /\ IdleDiff
    /\ IdleSynth
    /\ IdleSchema
    /\ IdleCmd
    /\ IdleLogger
    /\ IdleToken

NextProxy ==
    \/ \E member \in Members, args \in Args : ProxyCall(member, args)
    \/ StartRetry
    \/ FnResolves
    \/ FnRejects
    \/ SleepElapses
    \/ CallSettles

SpecProxy == InitProxy /\ [][NextProxy]_vars

Printed(item) == item \in Range(out)

FirstIndex(item) == CHOOSE i \in DOMAIN out : out[i] = item

\* C12: in every run that selects the migration format, whatever the other
\* options, the fallback warning is output before any patch.
C12_MigrationFallbackWarned ==
    (diffFormat = "migration" /\ Printed("patch")) =>
        /\ Printed("warn")
        /\ FirstIndex("warn") < FirstIndex("patch")

\* C19: the two sides settle in any order; the comparison runs only after
\* both have resolved; if a side fails, diff fails with the error of the
\* side that failed first, and neither patch nor identical message is output.
C19_CompareStep ==
    dpc' = "done" /\ dpc # "done" => (sides = {1, 2} /\ FailedSides = {} /\ derr = NoError)

C19_JoinBeforeCompare ==
    /\ [][C19_CompareStep]_vars
    /\ []((Printed("patch") \/ Printed("identical")) =>
             (sides = {1, 2} /\ FailedSides = {} /\ dpc = "done"))
    /\ [](FailedSides # {} =>
             /\ dpc \in {"failed", "exited"}
             /\ \E i \in FailedSides : derr = sideErr[i]
             /\ ~Printed("patch") /\ ~Printed("identical"))
    /\ [][FailedSides # {} => derr' = derr]_vars
    /\ [](dpc = "exited" => exitCode = ExitCodeOf(derr))

C19_Witness ==
    /\ dpc = "exited"
    /\ sides = {1}
    /\ FailedSides = {2}
    /\ derr = notFoundError
    /\ exitCode = notFoundError.code
    /\ ~Printed("patch")

\* C18: withRetry has at most one invocation of fn in flight and never
\* cancels one; an invocation after the first starts only when every
\* earlier one has failed and, with a positive base delay, the backoff of the
\* failed attempt has been slept; each start is one fresh call of fn.
C18_StartStep ==
    calls' # calls =>
        /\ calls' = calls + 1
        /\ inFlight' = 1
        /\ rpc' = "inflight"
        /\ failures' = calls
        /\ result' = "pending"
        /\ (calls >= 1 /\ BaseDelayMs > 0) =>
              /\ rpc = "sleeping"
              /\ inFlight = 0
              /\ Len(slept) = calls
              /\ slept[calls] = <<calls - 1, DelayMs(BaseDelayMs, calls - 1)>>

C18_SettleStep ==
    (inFlight = 1 /\ rpc' # "inflight") =>
        \/ result' = "returned" /\ value' = calls
        \/ failures' = failures + 1 /\ lastError' = calls

C18_SequentialInvocations ==
    /\ [](inFlight \in {0, 1})
    /\ []((inFlight = 1) <=> (rpc = "inflight"))
    /\ [](rpc = "inflight" => failures = calls - 1)
    /\ [][C18_StartStep]_vars
    /\ [][C18_SettleStep]_vars

C18_Witness ==
    /\ rpc = "inflight"
    /\ calls = 3
    /\ failures = 2
    /\ BaseDelayMs > 0
    /\ Len(slept) = 2

StmtsOfKind(kinds) == {i \in DOMAIN sqlScript : sqlScript[i].kind \in kinds}

FkGroups(t) == Range(synTables[t].fkRows)

C14_OnlyExplicitIndexes ==
    spc = "done" =>
        /\ \A t \in DOMAIN synTables : \A i \in DOMAIN synTables[t].indexes :
              Cardinality({k \in StmtsOfKind({"index"}) :
                              sqlScript[k].table = t /\ sqlScript[k].item = i})
                 = IF synTables[t].indexes[i] = "c" THEN 1 ELSE 0
        /\ \A k \in StmtsOfKind({"index"}) :
              /\ sqlScript[k].table \in DOMAIN synTables
              /\ sqlScript[k].item \in DOMAIN synTables[sqlScript[k].table].indexes
        /\ \A t \in DOMAIN synTables :
              synTables[t].indexes = <<"pk", "u", "c">> =>
                 Cardinality({k \in StmtsOfKind({"index"}) : sqlScript[k].table = t}) = 1

C14_Witness ==
    /\ spc = "done"
    /\ Len(synTables) >= 1
    /\ synTables[1].indexes = <<"pk", "u", "c">>
    /\ Cardinality({k \in StmtsOfKind({"index"}) : sqlScript[k].table = 1}) = 1

TableNamesOf(sch) == [k \in DOMAIN sch.tables |-> sch.tables[k].name]

ObjectNames(sch) == Range(TableNamesOf(sch)) \cup Range(sch.views) \cup Range(sch.triggers)

NamesOfType(sch, type) ==
    IF type = "table" THEN Range(TableNamesOf(sch))
    ELSE IF type = "view" THEN Range(sch.views)
    ELSE Range(sch.triggers)

HasSystemPrefix(n) == Head(n) \in {"sqlite_", "_litestream_", "_cf_"}

Excluded(n) == optExcludeTables.defined /\ n \in Range(optExcludeTables.names)

IncludeFilters == optTables.defined /\ optTables.names # <<>>

PassesLists(n) == ~Excluded(n) /\ (IncludeFilters => n \in Range(optTables.names))

\* C15: without includeSystem no table, view or trigger of the returned
\* Schema has a name starting with sqlite_, _litestream_ or _cf_; with
\* includeSystem such an object is returned exactly when the include and
\* exclude lists let it pass.
C15_SystemObjectsHidden ==
    snapshot.returned =>
        /\ ~optIncludeSystem => \A n \in ObjectNames(snapshot) : ~HasSystemPrefix(n)
        /\ optIncludeSystem =>
              \A r \in Range(catalog) :
                 (r.type # "index" /\ HasSystemPrefix(r.name)) =>
                    (r.name \in NamesOfType(snapshot, r.type) <=> PassesLists(r.name))

C15_Witness ==
    /\ snapshot.returned
    /\ optIncludeSystem
    /\ Row("table", <<"sqlite_", "sequence">>) \in Range(catalog)
    /\ Row("table", <<"_cf_", "KV">>) \in Range(catalog)
    /\ <<"sqlite_", "sequence">> \in Range(TableNamesOf(snapshot))
    /\ <<"_cf_", "KV">> \notin Range(TableNamesOf(snapshot))

\* C16: a table on the exclude list is never returned; with a non-empty
\* include list only tables on it are returned; a table on both lists is
\* not returned; an absent or empty include list filters nothing.
C16_TableFiltering ==
    snapshot.returned =>
        LET names == Range(TableNamesOf(snapshot))
            tableRows == {r \in Range(catalog) : r.type = "table"}
        IN  /\ \A n \in names : ~Excluded(n)
            /\ IncludeFilters => names \subseteq Range(optTables.names)
            /\ \A n \in Range(optTables.names) : Excluded(n) => n \notin names
            /\ ~IncludeFilters =>
                  \A r \in tableRows :
                     (~Excluded(r.name) /\ (optIncludeSystem \/ ~HasSystemPrefix(r.name)))
                        => r.name \in names
            /\ names \subseteq {r.name : r \in tableRows}

C16_Witness ==
    /\ snapshot.returned
    /\ optTables.defined /\ <<"users">> \in Range(optTables.names)
    /\ Excluded(<<"users">>)
    /\ Row("table", <<"users">>) \in Range(catalog)
    /\ Row("table", <<"orders">>) \in Range(catalog)

CatalogPos(n) == CHOOSE i \in DOMAIN catalog : catalog[i].type = "table" /\ catalog[i].name = n

\* C17: whatever the order in which the parallel queries complete, the
\* returned tables are in catalog order, each table carries the results of
\* its own three PRAGMAs, and its indexes are in index_list order, each
\* with its own index_info.
C17_ResultIndependentOfCompletionOrder ==
    snapshot.returned =>
        /\ TableNamesOf(snapshot) = Kept("table")
        /\ \A i, j \in DOMAIN snapshot.tables :
              i < j => CatalogPos(snapshot.tables[i].name) < CatalogPos(snapshot.tables[j].name)
        /\ \A i \in DOMAIN snapshot.tables :
              LET t == snapshot.tables[i]
              IN  /\ t.columns = Rows("table_info", t.name)
                  /\ t.foreignKeys = Rows("foreign_key_list", t.name)
                  /\ Len(t.indexes) = Len(IndexListOf(t.name))
                  /\ \A k \in DOMAIN t.indexes :
                        /\ t.indexes[k].name = IndexListOf(t.name)[k].name
                        /\ t.indexes[k].origin = IndexListOf(t.name)[k].origin
                        /\ t.indexes[k].columns = Rows("index_info", t.indexes[k].name)

C17_Witness ==
    /\ snapshot.returned
    /\ Len(snapshot.tables) >= 2
    /\ \E i \in DOMAIN snapshot.tables :
          /\ snapshot.tables[i].name = <<"users">>
          /\ Len(snapshot.tables[i].indexes) = 2

\* the value handed to the command is not a non-negative number
InvalidNumber(v) == v.nan \/ ~(v.n >= 0)

IntrospectArgumentsInvalid ==
    /\ ipc # "idle"
    /\ \/ database \in {"undefined", ""}
       \/ optFormat \notin {"undefined", "sql", "json"}
       \/ InvalidNumber(CmdRetries)
       \/ InvalidNumber(CmdRetryDelay)

DiffArgumentsInvalid == dpc # "idle" /\ diffFormat \notin {"diff", "migration"}

C30_NegativeOptionsClamped ==
    /\ result = "threw" => calls >= 1
    /\ (rpc # "idle" /\ optRetries < 0) =>
          /\ calls <= 1
          /\ rpc = "done" => calls = 1
          /\ result = "threw" => (msgAttempts = 1 /\ failures = 1)
    /\ (rpc # "idle" /\ optBaseDelay < 0) => (slept = <<>> /\ rpc # "sleeping")

C30_Witness ==
    /\ optRetries < 0
    /\ optBaseDelay < 0
    /\ result = "threw"
    /\ calls = 1
    /\ msgAttempts = 1

\* C28 (as claimed): the include and exclude lists restrict only tables:
\* every view and trigger of the catalog is returned, whatever the lists,
\* unless the system-prefix rule hides it.
C28_ListsRestrictOnlyTables ==
    snapshot.returned =>
        \A r \in Range(catalog) :
           (r.type \in {"view", "trigger"} /\ (optIncludeSystem \/ ~HasSystemPrefix(r.name)))
              => r.name \in NamesOfType(snapshot, r.type)

Did(op) == op \in Range(ioLog)

Shown(item) == item \in Range(console)

\* C22: with --check the run sends the probe and nothing else: it never
\* calls introspectSchema, never writes a file and never prints a schema,
\* whether the probe resolves or rejects; a probe that rejects ends in a
\* connection error and exit code 1.
C22_CheckOnlyProbes ==
    (optCheck /\ ipc # "idle") =>
        /\ ~Did("introspectSchema")
        /\ ~Did("writeFile")
        /\ ~fileWritten
        /\ ~Shown("output")
        /\ ~found.returned
        /\ ipc \notin {"introspecting", "writing"}
        /\ (Did("SELECT 1") /\ ipc \in {"failed", "exited"}) =>
              /\ thrown = [kind |-> "CliError", code |-> 1]
              /\ ipc = "exited" => code = 1
        /\ (Did("SELECT 1") /\ ipc = "done") => thrown = NoError

C22_Witness ==
    /\ optCheck
    /\ optStdout
    /\ Did("SELECT 1")
    /\ ipc = "exited"
    /\ code = 1

Empty(sch) == sch.returned /\ sch.tables + sch.views + sch.triggers = 0

ProducedOutput ==
    IF optStdout THEN Shown("output") /\ ipc = "done"
    ELSE Did("writeFile") /\ (ipc = "done" => fileWritten)

\* C23 (as claimed): when the Schema has no table, view or trigger,
\* introspect emits the warning and still produces its output at the chosen
\* destination; the empty Schema is never an error.
C23_EmptyWarnedAndWritten ==
    Empty(found) =>
        /\ Shown("no user tables")
        /\ ProducedOutput
        /\ thrown # NoError => (Did("writeFile") /\ ~fileWritten)

\* C23 (amended): when the Schema has no table, view or trigger, introspect
\* emits the warning unless quiet is set, and with or without the warning
\* produces its output at the chosen destination; the empty Schema is never
\* an error (only a rejected write fails the run); a Schema that has an
\* object is never warned about.
C23_EmptyWarnedUnlessQuiet ==
    found.returned =>
        /\ Empty(found) =>
              /\ ~optQuiet => Shown("no user tables")
              /\ optQuiet => ~Shown("no user tables")
              /\ ProducedOutput
              /\ thrown # NoError => (Did("writeFile") /\ ~fileWritten)
        /\ ~Empty(found) => ~Shown("no user tables")

C23_Witness ==
    /\ Empty(found)
    /\ ~optQuiet
    /\ ~optStdout
    /\ fileWritten
    /\ ipc = "done"
    /\ Shown("no user tables")

\* C24 (as claimed): for a diff source that names an existing regular file
\* no database client is created and no introspection is run, on any path,
\* a failed read included; the side's text is what fs.readFile returned.
C24_FileSourceNeverConnects ==
    \A i \in {1, 2} :
       srcKind[i] = "file" =>
          /\ sideClient[i] = "none"
          /\ sidePc[i] \in {"idle", "stat", "reading", "resolved"}

\* C25 (as claimed): when a command has completed or the process has
\* exited, no database client that introspect or a side of diff created is
\* still open.
C25_ClientsClosedAtEnd ==
    /\ ipc \in {"done", "exited"} => client # "open"
    /\ dpc \in {"done", "exited"} => \A i \in {1, 2} : sideClient[i] # "open"

\* C26: a run with a missing database, an invalid --format, --retries or
\* --retry-delay (introspect) or an invalid --diff-format (diff) fails with
\* the invalid-arguments error before createDbClient is called, a source
\* is looked at or anything is output.
C26_ValidationPrecedesIO ==
    /\ IntrospectArgumentsInvalid =>
          /\ ioLog = <<>>
          /\ client = "none"
          /\ ~fileWritten
          /\ ~found.returned
          /\ Range(console) \subseteq {"error"}
          /\ ipc \in {"init", "failed", "exited"}
          /\ ipc # "init" => thrown = [kind |-> "CliError", code |-> 2]
    /\ DiffArgumentsInvalid =>
          /\ \A i \in {1, 2} : sidePc[i] = "idle" /\ sideClient[i] = "none"
          /\ sides = {}
          /\ Range(out) \subseteq {"error"}
          /\ dpc \in {"init", "failed", "exited"}
          /\ dpc # "init" => derr = [kind |-> "CliError", code |-> 2]

C26_Witness ==
    /\ ipc = "exited"
    /\ database = "app.db"
    /\ Format = "sql"
    /\ ~RejectedNumber(CmdRetries)
    /\ rawRetryDelay = Passed(<<"-", "5">>)
    /\ console = <<"error">>

\* The k-th call on the Logger wrote to the console.
Emitted(k) == \E j \in DOMAIN logOut : logOut[j].call = k

\* C29: with quiet set, info, success, warn and verbose write nothing, also
\* when verbose is set; verbose writes exactly when verbose is set and
\* quiet is not; error always writes.
C29_LoggerGating ==
    \A k \in DOMAIN logCalls :
       /\ (logQuiet /\ logCalls[k] \in {"info", "success", "warn", "verbose"}) => ~Emitted(k)
       /\ logCalls[k] = "verbose" => (Emitted(k) <=> (logVerbose /\ ~logQuiet))
       /\ logCalls[k] = "error" =>
             \E j \in DOMAIN logOut :
                logOut[j] = [call |-> k, method |-> "error", stream |-> "stderr"]

C29_Witness ==
    /\ logQuiet
    /\ logVerbose
    /\ logCalls = <<"verbose", "warn", "error">>
    /\ logOut = <<[call |-> 3, method |-> "error", stream |-> "stderr"]>>

\* A source holds a token: it is defined and not the empty string.
Supplied(t) == t.text # "undefined" /\ t.text # ""

\* C21: the flag, then TURSO_AUTH_TOKEN, then the settings file: a source
\* is looked at only when every source before it holds nothing, and the
\* token used is that of the first source that holds one.
C21_StrictPriority ==
    /\ \A k \in DOMAIN consulted :
          /\ consulted[k] = "env" => ~Supplied(tokenFlag)
          /\ consulted[k] = "settings" => ~Supplied(tokenFlag) /\ ~Supplied(envToken)
    /\ tpc \in {"minting", "done"} =>
          /\ Supplied(tokenFlag) => tokenResult.source = "flag"
          /\ (~Supplied(tokenFlag) /\ Supplied(envToken)) => tokenResult.source = "env"
          /\ tokenResult.source = "settings" =>
                ~Supplied(tokenFlag) /\ ~Supplied(envToken) /\ Supplied(settingsToken)

C21_Witness ==
    /\ tpc = "done"
    /\ tokenFlag = [text |-> "t", platform |-> FALSE]
    /\ envToken = [text |-> "t", platform |-> TRUE]
    /\ Supplied(settingsToken)
    /\ tokOrg = "acme"
    /\ consulted = <<"flag">>
    /\ tokenResult = [source |-> "flag", minted |-> FALSE, rejected |-> FALSE]

\* config.retries and config.retryDelayMs with the defaults 3 and 500
ConfiguredRetries == IF cfgRetries.defined THEN cfgRetries.value ELSE ClientDefaultRetries

ConfiguredBaseDelay ==
    IF cfgRetryDelay.defined THEN cfgRetryDelay.value ELSE ClientDefaultRetryDelay

\* C27: every execute or batch call through the client ran under withRetry
\* with the configured retries and base delay, with a budget of its own
\* (1 to retries + 1 invocations whatever the calls before it used, all
\* retries + 1 of them when it failed) and the caller's arguments; a call
\* of any other member was one invocation of the target, never retried.
C27_ExecuteAndBatchRetried ==
    /\ \A k \in DOMAIN settled :
          IF settled[k].member \in {"execute", "batch"}
          THEN /\ settled[k].retried
               /\ settled[k].retries = ConfiguredRetries
               /\ settled[k].baseDelayMs = ConfiguredBaseDelay
               /\ settled[k].invocations \in 1..(ConfiguredRetries + 1)
               /\ settled[k].invokedWith = settled[k].args
               /\ settled[k].outcome \in {"returned", "threw"}
               /\ settled[k].outcome = "threw" =>
                     /\ settled[k].invocations = ConfiguredRetries + 1
                     /\ settled[k].attempts = ConfiguredRetries + 1
          ELSE /\ ~settled[k].retried
               /\ settled[k].invocations = 1
    /\ ppc = "running" =>
          /\ current.member \in {"execute", "batch"}
          /\ optRetries = ConfiguredRetries
          /\ optBaseDelay = ConfiguredBaseDelay
          /\ calls <= ConfiguredRetries + 1
          /\ attempt <= ConfiguredRetries + 1
          /\ \A j \in DOMAIN slept : slept[j][2] = ConfiguredBaseDelay * (2 ^ slept[j][1])

\* Two failed calls in a row with the default options: each was invoked
\* four times.
C27_Witness ==
    /\ ~cfgRetries.defined
    /\ ~cfgRetryDelay.defined
    /\ Len(settled) = 2
    /\ settled[1].member = "execute" /\ settled[1].outcome = "threw"
    /\ settled[1].invocations = ClientDefaultRetries + 1
    /\ settled[2].member = "batch" /\ settled[2].outcome = "threw"
    /\ settled[2].invocations = ClientDefaultRetries + 1
    /\ settled[2].args # settled[1].args

====
